---- MODULE Spec2Model ----
(***************************************************************************)
(* Model of llm_utils/chat.py: the two chat clients ChatGPT (direct        *)
(* provider, retry on transient errors, class-level usage counters) and    *)
(* Claude (gateway provider, conversation normalization, bounded retry on  *)
(* unextractable completions), with the extraction helpers of utils.py,   *)
(* and of the pure functions of utils.py (calculate_cost,                  *)
(* word_wrap_except_code_blocks, number_group_of_lines).                   *)
(*                                                                         *)
(* Scheduling: send_message is an `async def`.  Coroutines of one event    *)
(* loop interleave only at `await`; between two awaits a coroutine owns    *)
(* the loop's thread.  `running` names the coroutine that owns the thread  *)
(* (NoTask when the loop is free to schedule).                             *)
(***************************************************************************)
EXTENDS Integers, Sequences, FiniteSets, TLC

\* ---------------------------------------------------------------- bounds
NumTasks == 2       \* concurrent ChatGPT.send_message coroutines
MaxFailures == 2    \* provider failures in one run, over all sends

Tasks == 1..NumTasks
NoTask == 0

\* ------------------------------------------------------- optional values
None == [isNone |-> TRUE]
Some(x) == [isNone |-> FALSE, v |-> x]

\* ---------------------------------------------------- openai error classes
\* The exception classes the provider call can raise, with their base class.
ErrorClasses ==
    {"RateLimitError", "APITimeoutError", "BadRequestError",
     "APIConnectionError", "APIStatusError", "APIError", "OpenAIError"}

BaseOf(c) ==
    CASE c = "RateLimitError"     -> "APIStatusError"
      [] c = "BadRequestError"    -> "APIStatusError"
      [] c = "APIStatusError"     -> "APIError"
      [] c = "APITimeoutError"    -> "APIConnectionError"
      [] c = "APIConnectionError" -> "APIError"
      [] c = "APIError"           -> "OpenAIError"
      [] OTHER                    -> "Exception"

RECURSIVE IsInstance(_, _)
IsInstance(c, cls) ==
    IF c = cls THEN TRUE
    ELSE IF c = "Exception" THEN FALSE
    ELSE IsInstance(BaseOf(c), cls)

\* The errors the provider call raises in the model (concrete classes).
RaisedErrors ==
    {"RateLimitError", "APITimeoutError", "APIConnectionError", "OpenAIError"}

\* The except clauses of ChatGPT.send_message, first match first:
\* the delay slept by the clause that catches c, 0 when no clause catches it.
ExceptDelay(c) ==
    IF IsInstance(c, "RateLimitError") THEN 1
    ELSE IF IsInstance(c, "APITimeoutError") THEN 1
    ELSE IF IsInstance(c, "APIError") \/ IsInstance(c, "BadRequestError")
            \/ IsInstance(c, "APIConnectionError") THEN 5
    ELSE 0

Caught(c) == ExceptDelay(c) # 0

\* ------------------------------------------------------ provider responses
\* response.choices
ChoicesOf(r) == r.choices

\* The responses the provider gives in the model.
Responses ==
    { [usage |-> None, choices |-> <<Some("x")>>],
      [usage |-> Some([prompt_tokens |-> 1, completion_tokens |-> 2]),
       choices |-> <<Some("x"), None, Some("y")>>],
      [usage |-> Some([prompt_tokens |-> 3, completion_tokens |-> 1]),
       choices |-> <<None>>],
      [usage |-> Some([prompt_tokens |-> 1, completion_tokens |-> 2]),
       choices |-> <<None, Some(""), Some("x")>>] }

\* What the provider metered for response r (nothing when it sends no usage).
MeteredPrompt(r) == IF r.usage = None THEN 0 ELSE r.usage.v.prompt_tokens
MeteredCompletion(r) == IF r.usage = None THEN 0 ELSE r.usage.v.completion_tokens

\* What one provider call ends with.
NoResp == [kind |-> "pending"]
OkResp(r) == [kind |-> "ok", response |-> r]
ErrResp(c) == [kind |-> "error", class |-> c]

\* Variant of UsagePrompt: the completion count is read for the prompt counter.
UsagePrompt_swapped(r) ==
    IF r.usage.isNone THEN 0 ELSE r.usage.v.completion_tokens

\* response.usage.prompt_tokens if response.usage is not None else 0
UsagePrompt(r) == IF r.usage.isNone THEN 0 ELSE r.usage.v.prompt_tokens
UsageCompletion(r) == IF r.usage.isNone THEN 0 ELSE r.usage.v.completion_tokens

\* [resp.message.content for resp in response.choices
\*    if resp.message.content is not None]
RECURSIVE Contents(_)
Contents(choices) ==
    IF choices = <<>> THEN <<>>
    ELSE IF Head(choices).isNone THEN Contents(Tail(choices))
    ELSE <<Head(choices).v>> \o Contents(Tail(choices))

\* Variant of AddUsage: `=` written for `+=`.
AddUsage_assign(counter, amount) == amount

\* cls.prompt_tokens += ... ; cls.completion_tokens += ...
AddUsage(counter, amount) == counter + amount

\* =========================================================== gateway provider
\* Text is a sequence of one-character strings and of tokens; Whitespace are
\* the characters str.rstrip() and str.strip() remove.
Whitespace == {" ", "\n"}

RECURSIVE RStrip(_)
RStrip(s) ==
    IF s = <<>> THEN s
    ELSE IF s[Len(s)] \in Whitespace THEN RStrip(SubSeq(s, 1, Len(s) - 1))
    ELSE s

RECURSIVE LStrip(_)
LStrip(s) ==
    IF s = <<>> THEN s
    ELSE IF Head(s) \in Whitespace THEN LStrip(Tail(s))
    ELSE s

Strip(s) == LStrip(RStrip(s))

USER_PREFIX == "Human"
ASSISTANT_PREFIX == "Assistant"

\* Claude.user_message / Claude.assistant_message
user_message(msg) == [role |-> USER_PREFIX, content |-> msg]
assistant_message(msg) == [role |-> ASSISTANT_PREFIX, content |-> msg]

\* The messages callers build in the model.
Messages ==
    { user_message(<<"a", "\n">>),
      assistant_message(<<"b", " ">>) }

MaxConvLen == 3     \* messages of a conversation handed to Claude.send_message

RECURSIVE SeqsUpTo(_, _)
SeqsUpTo(S, n) ==
    IF n = 0 THEN {<<>>}
    ELSE LET shorter == SeqsUpTo(S, n - 1)
         IN shorter \cup {Append(q, x) : q \in {r \in shorter : Len(r) = n - 1}, x \in S}

Conversations == SeqsUpTo(Messages, MaxConvLen)

\* The loop of generate_chatlog: log += "{}: {}\n\n".format(role, content)
RECURSIVE ChatlogBody(_)
ChatlogBody(conversations) ==
    IF conversations = <<>> THEN <<>>
    ELSE <<Head(conversations).role, ":", " ">> \o Head(conversations).content
           \o <<"\n", "\n">> \o ChatlogBody(Tail(conversations))

\* Claude.generate_chatlog: "{role}: {content}\n\n" per message, stripped on
\* the right, then "\n\nAssistant: ".
generate_chatlog(conversations) ==
    RStrip(ChatlogBody(conversations)) \o <<"\n", "\n", ASSISTANT_PREFIX, ":", " ">>

\* Claude.create_payload
create_payload(conversation) ==
    [ prompt |-> generate_chatlog(conversation),
      max_tokens_to_sample |-> 2048,
      temperature |-> 0,
      top_k |-> 250,
      top_p |-> 1,
      stop_sequences |-> << <<"\n", "\n", USER_PREFIX, ":">> >>,
      anthropic_version |-> "bedrock-2023-05-31" ]

\* Variant of Normalize: a list of one message is sent as it is.
Normalize_lenient(conversation) ==
    IF conversation = <<>>
    THEN [list |-> conversation, raised |-> TRUE]
    ELSE IF Len(conversation) = 1
    THEN [list |-> conversation, raised |-> FALSE]
    ELSE [list |-> [Tail(conversation) EXCEPT ![1].content =
                       RStrip(Head(conversation).content) \o <<"\n">> \o @],
          raised |-> FALSE]

\* Variant of Normalize: the first content is merged without rstrip().
Normalize_nostrip(conversation) ==
    IF Len(conversation) < 2
    THEN [list |-> <<>>, raised |-> TRUE]
    ELSE [list |-> [Tail(conversation) EXCEPT ![1].content =
                       Head(conversation).content \o <<"\n">> \o @],
          raised |-> FALSE]

\* first_msg = conversation.pop(0)["content"]
\* conversation[0]["content"] = first_msg.rstrip() + "\n" + conversation[0]["content"]
\* The list is the caller's object: [list |-> the list afterwards,
\* raised |-> whether an IndexError left the statements].
Normalize(conversation) ==
    IF conversation = <<>>
    THEN [list |-> conversation, raised |-> TRUE]
    ELSE LET first_msg == Head(conversation).content
             popped == Tail(conversation)
         IN IF popped = <<>>
            THEN [list |-> popped, raised |-> TRUE]
            ELSE [list |-> [popped EXCEPT ![1].content =
                               RStrip(first_msg) \o <<"\n">> \o @],
                  raised |-> FALSE]

\* ------------------------------------------------------------ JSON values
JInt(digits) == [t |-> "int", v |-> digits]
JStr(chars) == [t |-> "str", v |-> chars]
JList(elems) == [t |-> "list", v |-> elems]
JObj(members) == [t |-> "obj", v |-> members]
Member(k, x) == [key |-> k, val |-> x]

\* The tokens of a completion that are one member of a JSON object, with the
\* key and the value json.loads gives them.
MemberTokens ==
    { "\"k\": 1", "\"responses\": [\"a\", \"b\"]", "\"responses\": []",
      "\"responses\": 3", "\"responses\": \"ab\"" }

MemberOf(tok) ==
    CASE tok = "\"k\": 1" -> Member(<<"k">>, JInt(<<"1">>))
      [] tok = "\"responses\": [\"a\", \"b\"]" ->
             Member(<<"responses">>, JList(<<JStr(<<"a">>), JStr(<<"b">>)>>))
      [] tok = "\"responses\": []" -> Member(<<"responses">>, JList(<<>>))
      [] tok = "\"responses\": 3" -> Member(<<"responses">>, JInt(<<"3">>))
      [] tok = "\"responses\": \"ab\"" -> Member(<<"responses">>, JStr(<<"a", "b">>))

\* dict insertion: a repeated key keeps its place and takes the later value.
HasKey(members, k) == \E i \in DOMAIN members : members[i].key = k
Lookup(members, k) == members[CHOOSE i \in DOMAIN members : members[i].key = k].val
Insert(members, m) ==
    IF HasKey(members, m.key)
    THEN [i \in DOMAIN members |->
             IF members[i].key = m.key THEN m ELSE members[i]]
    ELSE Append(members, m)

\* json.loads of the members between the braces: member ("," member)*.
\* [ok |-> FALSE] is JSONDecodeError.
RECURSIVE ParseMembers(_, _)
ParseMembers(toks, acc) ==
    IF toks = <<>> THEN [ok |-> FALSE]
    ELSE IF Head(toks) \notin MemberTokens THEN [ok |-> FALSE]
    ELSE LET acc2 == Insert(acc, MemberOf(Head(toks)))
         IN IF Len(toks) = 1 THEN [ok |-> TRUE, members |-> acc2]
            ELSE IF toks[2] # "," THEN [ok |-> FALSE]
            ELSE ParseMembers(SubSeq(toks, 3, Len(toks)), acc2)

\* json.loads(processed_string, strict=False) of a sliced text.
JsonLoads(toks) ==
    IF Len(toks) < 2 \/ toks[1] # "{" \/ toks[Len(toks)] # "}"
    THEN [ok |-> FALSE]
    ELSE IF Len(toks) = 2 THEN [ok |-> TRUE, members |-> <<>>]
    ELSE ParseMembers(SubSeq(toks, 2, Len(toks) - 1), <<>>)

\* str.find / str.rfind, 1-based, 0 for "not found".
Find(text, tok) ==
    IF \E i \in DOMAIN text : text[i] = tok
    THEN CHOOSE i \in DOMAIN text :
             text[i] = tok /\ \A j \in 1..(i - 1) : text[j] # tok
    ELSE 0

RFind(text, tok) ==
    IF \E i \in DOMAIN text : text[i] = tok
    THEN CHOOSE i \in DOMAIN text :
             text[i] = tok /\ \A j \in (i + 1)..Len(text) : text[j] # tok
    ELSE 0

\* utils.contains_valid_json: the object between the first "{" and the last
\* "}", or None.  (The completions of the model hold no triple-quoted span,
\* on which the re.sub is the identity.)
contains_valid_json(my_string) ==
    LET start_pos == Find(my_string, "{")
        end_pos == RFind(my_string, "}")
    IN IF start_pos = 0 \/ end_pos = 0 THEN None
       ELSE LET parsed == JsonLoads(SubSeq(my_string, start_pos, end_pos))
            IN IF parsed.ok THEN Some(JObj(parsed.members)) ELSE None

\* A fence of three backticks, as one token of a text.
FENCE == "fence"

\* utils.extract_code_blocks: re.findall of a fence, an optional "python",
\* the shortest text up to the next fence (re.DOTALL); the second group of
\* each match, stripped.
RECURSIVE extract_code_blocks(_)
extract_code_blocks(text) ==
    LET open == Find(text, FENCE)
    IN IF open = 0 THEN <<>>
       ELSE LET after == SubSeq(text, open + 1, Len(text))
                body == IF after # <<>> /\ Head(after) = "python"
                        THEN Tail(after) ELSE after
                close == Find(body, FENCE)
            IN IF close = 0 THEN <<>>
               ELSE <<Strip(SubSeq(body, 1, close - 1))>>
                    \o extract_code_blocks(SubSeq(body, close + 1, Len(body)))

\* json.dumps of the characters of a string: quotes and newlines are escaped.
EscapeChar(c) ==
    CASE c = "\"" -> "\\\""
      [] c = "\n" -> "\\n"
      [] OTHER -> c
Escape(chars) == [i \in DOMAIN chars |-> EscapeChar(chars[i])]

\* json.dumps, with the default separators ", " and ": ".
RECURSIVE Dumps(_)
RECURSIVE DumpsElems(_)
RECURSIVE DumpsMembers(_)
Dumps(x) ==
    CASE x.t = "int" -> x.v
      [] x.t = "str" -> <<"\"">> \o Escape(x.v) \o <<"\"">>
      [] x.t = "list" -> <<"[">> \o DumpsElems(x.v) \o <<"]">>
      [] x.t = "obj" -> <<"{">> \o DumpsMembers(x.v) \o <<"}">>
DumpsElems(elems) ==
    IF elems = <<>> THEN <<>>
    ELSE Dumps(Head(elems))
         \o (IF Len(elems) > 1 THEN <<",", " ">> ELSE <<>>)
         \o DumpsElems(Tail(elems))
DumpsMembers(members) ==
    IF members = <<>> THEN <<>>
    ELSE <<"\"">> \o Head(members).key \o <<"\"", ":", " ">>
         \o Dumps(Head(members).val)
         \o (IF Len(members) > 1 THEN <<",", " ">> ELSE <<>>)
         \o DumpsMembers(Tail(members))

\* What `for s in x` yields: the elements of a list, the characters of a
\* string, the keys of a dict; an int is not iterable (TypeError).
Iterable(x) == x.t # "int"
IterItems(x) ==
    CASE x.t = "list" -> x.v
      [] x.t = "str" -> [i \in DOMAIN x.v |-> JStr(<<x.v[i]>>)]
      [] x.t = "obj" -> [i \in DOMAIN x.v |-> JStr(x.v[i].key)]
      [] OTHER -> <<>>

\* The body of one iteration of the loop of Claude.send_message after
\* get_inference has returned `completion`: return a list, raise, or go on to
\* the next iteration.
Extract(completion) ==
    LET jsonified_completion == contains_valid_json(completion)
    IN IF ~jsonified_completion.isNone
       THEN LET members == jsonified_completion.v.v
            IN IF HasKey(members, <<"responses">>)
               THEN LET responses == Lookup(members, <<"responses">>)
                    IN IF Iterable(responses)
                       THEN [kind |-> "return",
                             val |-> [i \in DOMAIN IterItems(responses) |->
                                         Dumps(IterItems(responses)[i])]]
                       ELSE [kind |-> "raise", exc |-> "TypeError"]
               ELSE [kind |-> "return", val |-> <<Dumps(jsonified_completion.v)>>]
       ELSE LET code_blocks == extract_code_blocks(completion)
            IN IF Len(code_blocks) = 2
               THEN [kind |-> "return",
                     val |-> <<Dumps(JObj(<<Member(<<"snippet1">>, JStr(code_blocks[1])),
                                            Member(<<"snippet2">>, JStr(code_blocks[2]))>>))>>]
               ELSE [kind |-> "retry"]

\* The completions the gateway model gives in the model.
Completions ==
    { <<"prose">>,
      <<"{", "\"k\": 1", "}">>,
      <<"prose", "{", "\"responses\": [\"a\", \"b\"]", "}", "prose">>,
      <<"{", "\"responses\": []", "}">>,
      <<"{", "\"responses\": 3", "}">>,
      <<"{", "\"responses\": \"ab\"", ",", "\"k\": 1", "}">>,
      <<"{", "prose", "}">>,
      <<"}", "{">>,
      <<FENCE, "python", "\n", "code", "\n", FENCE>>,
      <<FENCE, "code", FENCE, "prose", FENCE, "python", "code", " ", FENCE>>,
      <<FENCE, "{", FENCE, FENCE, "}", FENCE>>,
      <<FENCE, "{", "\"k\": 1", "}", FENCE, FENCE, "code", FENCE>>,
      <<FENCE, "code", FENCE, FENCE, "code", FENCE, FENCE, "code", FENCE>> }

\* What one call of Claude.get_inference ends with: an exception raised in
\* its try block (and re-raised), or the parsed body of a 200 response.
\* A body without "completion" makes send_message raise KeyError.
InferenceOutcomes ==
    {[kind |-> "NoCredentialsError"], [kind |-> "ConnectionError"]}
    \cup {[kind |-> "http", status |-> 500, body |-> None]}
    \cup {[kind |-> "http", status |-> 200, body |-> None]}
    \cup {[kind |-> "http", status |-> 200, body |-> Some(c)] : c \in Completions}

\* How a call of get_inference ended, for the record of the attempts.
OutcomeClass(outcome) ==
    IF outcome.kind # "http" THEN outcome.kind
    ELSE IF outcome.status = 200 THEN "status 200" ELSE "status not 200"

\* Claude.get_inference: the completion it returns, or the exception it raises.
get_inference(outcome) ==
    IF outcome.kind # "http" THEN [raised |-> TRUE, exc |-> outcome.kind]
    ELSE IF outcome.status = 200 THEN [raised |-> FALSE, json |-> outcome.body]
    ELSE [raised |-> TRUE, exc |-> "RuntimeError"]

\* Variant of Lower: the name is compared as it was given.
Lower_identity(name) == name

\* str.lower() on the letters of the provider names.
UpperLetters == <<"A", "C", "D", "E", "I", "L", "N", "O", "P", "U">>
LowerLetters == <<"a", "c", "d", "e", "i", "l", "n", "o", "p", "u">>
LowerChar(c) ==
    IF \E i \in DOMAIN UpperLetters : UpperLetters[i] = c
    THEN LowerLetters[CHOOSE i \in DOMAIN UpperLetters : UpperLetters[i] = c]
    ELSE c
Lower(name) == [i \in DOMAIN name |-> LowerChar(name[i])]

\* The provider names and attempt ceilings given to get_model_from_str.
ModelNames ==
    { <<"o", "p", "e", "n", "a", "i">>, <<"O", "p", "e", "n", "A", "I">>,
      <<"c", "l", "a", "u", "d", "e">>, <<"C", "L", "A", "U", "D", "E">>,
      <<"c", "l", "a", "u", "d">> }

MaxRetryArg == 1    \* largest ceiling given to get_model_from_str
MaxSends == 2       \* calls of Claude.send_message in one run

RetryArgs == (0 - 1)..MaxRetryArg

DEFAULT_MAX_RETRY == 5

GatewayTask == NumTasks + 1

\* ================================================================== utilities

MaxKiloTokens == 2  \* largest token count given to calculate_cost, in thousands

\* PRICING_PER_1000, each price in ten-thousandths of a dollar per 1000 tokens
\* (0.0015 is 15), so that a cost is a whole number of 10^-7 dollars.
PRICING_PER_1000 ==
    ("gpt-3.5-turbo-1106" :> [input |-> 10, output |-> 20])
    @@ ("gpt-3.5-turbo" :> [input |-> 15, output |-> 20])
    @@ ("gpt-3.5-turbo-0613" :> [input |-> 15, output |-> 20])
    @@ ("gpt-3.5-turbo-0301" :> [input |-> 15, output |-> 20])
    @@ ("gpt-3.5-turbo-16k" :> [input |-> 30, output |-> 40])
    @@ ("gpt-3.5-turbo-16k-0613" :> [input |-> 30, output |-> 40])
    @@ ("gpt-4-1106-preview" :> [input |-> 100, output |-> 300])
    @@ ("gpt-4" :> [input |-> 300, output |-> 600])
    @@ ("gpt-4-0314" :> [input |-> 300, output |-> 600])
    @@ ("gpt-4-32k" :> [input |-> 600, output |-> 1200])
    @@ ("gpt-4-32k-0314" :> [input |-> 600, output |-> 1200])

\* Variant of calculate_cost: the two prices are exchanged.
calculate_cost_exchanged(num_input_tokens, num_output_tokens, model_type) ==
    IF model_type \notin DOMAIN PRICING_PER_1000
    THEN [kind |-> "raise", exc |-> "ValueError"]
    ELSE [kind |-> "return",
          val |-> num_input_tokens * PRICING_PER_1000[model_type].output
                  + num_output_tokens * PRICING_PER_1000[model_type].input]

\* calculate_cost: the cost in 10^-7 dollars, or ValueError when
\* PRICING_PER_1000.get(model_type) is None.
calculate_cost(num_input_tokens, num_output_tokens, model_type) ==
    IF model_type \notin DOMAIN PRICING_PER_1000
    THEN [kind |-> "raise", exc |-> "ValueError"]
    ELSE LET price_per_1000 == PRICING_PER_1000[model_type]
         IN [kind |-> "return",
             val |-> num_input_tokens * price_per_1000.input
                     + num_output_tokens * price_per_1000.output]

\* The arguments given to calculate_cost in the model.
TokenCounts == {0, 1} \cup {1000 * k : k \in 1..MaxKiloTokens}
ModelTypes == DOMAIN PRICING_PER_1000 \cup {"not-an-llm", "GPT-4", ""}
CostCalls ==
    [fn : {"calculate_cost"}, num_input_tokens : TokenCounts,
     num_output_tokens : TokenCounts, model_type : ModelTypes]

\* ------------------------------------------------- number_group_of_lines
MaxGroupLen == 3    \* longest group given to number_group_of_lines

\* str(n) for n >= 0
DecimalDigits == <<"0", "1", "2", "3", "4", "5", "6", "7", "8", "9">>
RECURSIVE Str(_)
Str(n) ==
    IF n < 10 THEN <<DecimalDigits[n + 1]>>
    ELSE Str(n \div 10) \o <<DecimalDigits[(n % 10) + 1]>>

\* "{0:>{1}} {2}".format(number, width, line)
Format(number, width, line) ==
    [i \in 1..(width - Len(Str(number))) |-> " "] \o Str(number)
        \o <<" ">> \o line

\* "\n".join(lines)
RECURSIVE JoinLines(_)
JoinLines(lines) ==
    IF lines = <<>> THEN <<>>
    ELSE IF Len(lines) = 1 THEN lines[1]
    ELSE lines[1] \o <<"\n">> \o JoinLines(Tail(lines))

\* Variant of StripLeading: the number of the first line is left as given.
RECURSIVE StripLeading_renumbered(_, _)
StripLeading_renumbered(group, first) ==
    IF group # <<>> /\ Strip(group[1]) = <<>>
    THEN StripLeading_renumbered(Tail(group), first)
    ELSE [group |-> group, first |-> first]

\* while group and not group[0].strip(): group = group[1:]; first += 1
RECURSIVE StripLeading(_, _)
StripLeading(group, first) ==
    IF group # <<>> /\ Strip(group[1]) = <<>>
    THEN StripLeading(Tail(group), first + 1)
    ELSE [group |-> group, first |-> first]

\* while group and not group[-1].strip(): group = group[:-1]
RECURSIVE StripTrailing(_)
StripTrailing(group) ==
    IF group # <<>> /\ Strip(group[Len(group)]) = <<>>
    THEN StripTrailing(SubSeq(group, 1, Len(group) - 1))
    ELSE group

number_group_of_lines(group, first, strip) ==
    LET leading == IF strip THEN StripLeading(group, first)
                   ELSE [group |-> group, first |-> first]
        kept == IF strip THEN StripTrailing(leading.group) ELSE leading.group
        last == leading.first + Len(kept) - 1
        max_line_number_length == Len(Str(last))
    IN [kind |-> "return",
        val |-> JoinLines([i \in DOMAIN kept |->
                   Format(leading.first + (i - 1), max_line_number_length,
                          kept[i])])]

\* The arguments given to number_group_of_lines in the model.
GroupLines == {<<>>, <<" ">>, <<"A">>}
Firsts == {1, 8, 9}
NumberCalls ==
    [fn : {"number_group_of_lines"}, group : SeqsUpTo(GroupLines, MaxGroupLen),
     first : Firsts, strip : BOOLEAN]

\* ------------------------------------------- word_wrap_except_code_blocks
MaxTextLines == 4   \* most lines of a text given to word_wrap_except_code_blocks

\* text.split("\n")
RECURSIVE SplitLines(_)
SplitLines(text) ==
    IF \E i \in DOMAIN text : text[i] = "\n"
    THEN LET i == CHOOSE k \in DOMAIN text :
                      text[k] = "\n" /\ \A j \in 1..(k - 1) : text[j] # "\n"
         IN <<SubSeq(text, 1, i - 1)>> \o SplitLines(SubSeq(text, i + 1, Len(text)))
    ELSE <<text>>

\* line.startswith("```"), the three backquotes being the one token FENCE
StartsWithFence(line) == line # <<>> /\ line[1] = FENCE

\* "".join(chunks)
RECURSIVE Concat(_)
Concat(chunks) ==
    IF chunks = <<>> THEN <<>> ELSE Head(chunks) \o Concat(Tail(chunks))

\* chunk.strip() == ""
IsSpaceChunk(chunk) == \A i \in DOMAIN chunk : chunk[i] \in Whitespace

\* TextWrapper._split_chunks for letters and spaces: the words of the line
\* and the runs of spaces between them.
RECURSIVE Chunks(_)
Chunks(line) ==
    IF line = <<>> THEN <<>>
    ELSE LET space == line[1] \in Whitespace
             n == CHOOSE k \in 1..Len(line) :
                      /\ \A i \in 1..k : (line[i] \in Whitespace) = space
                      /\ k < Len(line) => (line[k + 1] \in Whitespace) # space
         IN <<SubSeq(line, 1, n)>> \o Chunks(SubSeq(line, n + 1, Len(line)))

\* The chunks at the head of `chunks` that fit in `width` after cur_len.
RECURSIVE Fitting(_, _, _)
Fitting(chunks, cur_len, width) ==
    IF chunks # <<>> /\ cur_len + Len(Head(chunks)) <= width
    THEN 1 + Fitting(Tail(chunks), cur_len + Len(Head(chunks)), width)
    ELSE 0

\* TextWrapper._wrap_chunks with drop_whitespace and break_long_words.
RECURSIVE WrapChunks(_, _, _)
WrapChunks(chunks, lines, width) ==
    IF chunks = <<>> THEN lines
    ELSE LET kept == IF IsSpaceChunk(Head(chunks)) /\ lines # <<>>
                     THEN Tail(chunks) ELSE chunks
             n == Fitting(kept, 0, width)
             cur_line == SubSeq(kept, 1, n)
             rest == SubSeq(kept, n + 1, Len(kept))
             long == rest # <<>> /\ Len(Head(rest)) > width
             space_left == IF width < 1 THEN 1 ELSE width - Len(Concat(cur_line))
             broken == IF long
                       THEN Append(cur_line, SubSeq(Head(rest), 1, space_left))
                       ELSE cur_line
             left == IF long
                     THEN <<SubSeq(Head(rest), space_left + 1, Len(Head(rest)))>>
                          \o Tail(rest)
                     ELSE rest
             stripped == IF broken # <<>> /\ IsSpaceChunk(broken[Len(broken)])
                         THEN SubSeq(broken, 1, Len(broken) - 1) ELSE broken
         IN WrapChunks(left,
                       IF stripped # <<>> THEN Append(lines, Concat(stripped))
                       ELSE lines,
                       width)

\* textwrap.fill(l, width)
Fill(l, width) == JoinLines(WrapChunks(Chunks(l), <<>>, width))

\* The first loop: the lines from a fence line to the next one make a code
\* block, the lines between code blocks make a text block.
RECURSIVE FindCodeBlocks(_, _, _, _)
FindCodeBlocks(lines, blocks, block, in_code_block) ==
    IF lines = <<>>
    THEN Append(blocks, [lines |-> block, code |-> in_code_block])
    ELSE LET line == Head(lines)
         IN IF StartsWithFence(line)
            THEN IF in_code_block
                 THEN FindCodeBlocks(Tail(lines),
                          Append(blocks, [lines |-> Append(block, line),
                                          code |-> TRUE]),
                          <<>>, FALSE)
                 ELSE FindCodeBlocks(Tail(lines),
                          Append(blocks, [lines |-> block, code |-> FALSE]),
                          <<line>>, TRUE)
            ELSE FindCodeBlocks(Tail(lines), blocks, Append(block, line),
                                in_code_block)

\* The second loop on a text block: its paragraphs, which end at each empty
\* line.
RECURSIVE Paragraphs(_, _)
Paragraphs(lines, block) ==
    IF lines = <<>>
    THEN IF block # <<>> THEN <<[lines |-> block, code |-> FALSE]>> ELSE <<>>
    ELSE IF Head(lines) = <<>>
    THEN (IF block # <<>> THEN <<[lines |-> block, code |-> FALSE]>> ELSE <<>>)
         \o Paragraphs(Tail(lines), <<>>)
    ELSE Paragraphs(Tail(lines), Append(block, Head(lines)))

RECURSIVE SplitTextBlocks(_)
SplitTextBlocks(blocks) ==
    IF blocks = <<>> THEN <<>>
    ELSE (IF Head(blocks).code THEN <<Head(blocks)>>
          ELSE Paragraphs(Head(blocks).lines, <<>>))
         \o SplitTextBlocks(Tail(blocks))

\* Variant of WrapBlock: the lines of code blocks are filled as well.
WrapBlock_all(block, width) ==
    [i \in DOMAIN block.lines |-> Fill(block.lines[i], width)]

\* The third loop: the lines of a text block are filled, those of a code
\* block are left as they are.
WrapBlock(block, width) ==
    IF block.code THEN block.lines
    ELSE [i \in DOMAIN block.lines |-> Fill(block.lines[i], width)]

\* "\n\n".join(paragraphs)
RECURSIVE JoinBlocks(_)
JoinBlocks(paragraphs) ==
    IF paragraphs = <<>> THEN <<>>
    ELSE IF Len(paragraphs) = 1 THEN paragraphs[1]
    ELSE paragraphs[1] \o <<"\n", "\n">> \o JoinBlocks(Tail(paragraphs))

word_wrap_except_code_blocks(text, width) ==
    LET blocks == SplitTextBlocks(
                      FindCodeBlocks(SplitLines(text), <<>>, <<>>, FALSE))
    IN [kind |-> "return",
        val |-> JoinBlocks([i \in DOMAIN blocks |->
                               JoinLines(WrapBlock(blocks[i], width))])]

\* The arguments given to word_wrap_except_code_blocks in the model.
WrapLines ==
    {<<>>, <<FENCE>>, <<FENCE, "p">>, <<"x">>, <<"x", "x", " ", "x", "x">>}
Widths == {2, 3}
WrapCalls ==
    [fn : {"word_wrap_except_code_blocks"},
     text : {JoinLines(lines) : lines \in SeqsUpTo(WrapLines, MaxTextLines)},
     width : Widths]

VARIABLES
    running,            \* coroutine owning the event loop's thread, or NoTask
    pc,                 \* pc[t]: position of ChatGPT.send_message coroutine t
    resp,               \* resp[t]: outcome of t's provider call in flight
    ret,                \* ret[t]: value returned by t's send_message
    trace,              \* trace[t]: calls, failures and sleeps of t, in order
    prompt_tokens,      \* ChatGPT.prompt_tokens (class attribute)
    completion_tokens,  \* ChatGPT.completion_tokens (class attribute)
    billedPrompt,       \* sum of usage.prompt_tokens over successful responses
    billedCompletion,   \* sum of usage.completion_tokens over successful responses
    overlapped,         \* a send has returned while the call of another was in flight
    MAX_RETRY,          \* Claude.MAX_RETRY (class attribute)
    claude_prompt_tokens,      \* Claude.prompt_tokens (class attribute)
    claude_completion_tokens,  \* Claude.completion_tokens (class attribute)
    client,             \* what the last get_model_from_str returned
    conversation,       \* the caller's list object handed to Claude.send_message
    before,             \* value of that list when the current send was called
    cpc,                \* position of Claude.send_message
    payload,            \* payload built by the current send
    ceiling,            \* range(cls.MAX_RETRY) of the current send
    attempt,            \* iterations of the loop completed by the current send
    sent,               \* payloads handed to get_inference by the current send
    results,            \* how each get_inference call and its iteration ended
    errors_logged,      \* log.error calls of the current send
    cret,               \* value returned by the current send
    exc,                \* exception that left the current send
    sends,              \* calls of Claude.send_message so far
    util_args,          \* the utility function called and its arguments
    util_result         \* what that call returned or raised

directVars == <<running, pc, resp, ret, trace, prompt_tokens, completion_tokens,
                billedPrompt, billedCompletion, overlapped>>

gatewayVars == <<MAX_RETRY, claude_prompt_tokens, claude_completion_tokens,
                 client, conversation, before, cpc, payload, ceiling, attempt,
                 sent, results, errors_logged, cret, exc, sends>>

utilVars == <<util_args, util_result>>

vars == <<directVars, gatewayVars, utilVars>>

NotReturned == [kind |-> "not returned"]
Returned(list) == [kind |-> "list", val |-> list]
ReturnedNone == [kind |-> "None"]

Count(seq, P(_)) == Cardinality({i \in DOMAIN seq : P(seq[i])})
IsCall(e) == e = "call"
IsSleep(e) == e \in {"sleep 1", "sleep 5"}
IsFailure(e) == e \in ErrorClasses
Calls(t) == Count(trace[t], IsCall)
Sleeps(t) == Count(trace[t], IsSleep)
Failures(t) == Count(trace[t], IsFailure)

RECURSIVE SumOver(_, _)
SumOver(f(_), S) ==
    IF S = {} THEN 0
    ELSE LET t == CHOOSE x \in S : TRUE IN f(t) + SumOver(f, S \ {t})

\* Provider failures so far, over all sends (those in flight included).
InFlightFailure(t) == IF resp[t].kind = "error" /\ pc[t] = "awaiting" THEN 1 ELSE 0
TotalFailures == SumOver(Failures, Tasks) + SumOver(InFlightFailure, Tasks)

\* The direct provider before any send.
DirectIdle ==
    /\ running = NoTask
    /\ pc = [t \in Tasks |-> "idle"]
    /\ resp = [t \in Tasks |-> NoResp]
    /\ ret = [t \in Tasks |-> NotReturned]
    /\ trace = [t \in Tasks |-> <<>>]
    /\ prompt_tokens = 0
    /\ completion_tokens = 0
    /\ billedPrompt = 0
    /\ billedCompletion = 0
    /\ overlapped = FALSE

\* No utility function has been called.
NoCall == [fn |-> "none"]
Pending == [kind |-> "pending"]
UtilIdle == util_args = NoCall /\ util_result = Pending

NoPayload == [prompt |-> <<>>]
NoException == "none"

\* The gateway provider before any send, the caller holding list `conv`.
GatewayIdle(conv) ==
    /\ MAX_RETRY = DEFAULT_MAX_RETRY
    /\ claude_prompt_tokens = 0
    /\ claude_completion_tokens = 0
    /\ client = "no call"
    /\ conversation = conv
    /\ before = conv
    /\ cpc = "idle"
    /\ payload = NoPayload
    /\ ceiling = 0
    /\ attempt = 0
    /\ sent = <<>>
    /\ results = <<>>
    /\ errors_logged = 0
    /\ cret = NotReturned
    /\ exc = NoException
    /\ sends = 0

InitDirect == DirectIdle /\ GatewayIdle(<<>>) /\ UtilIdle

InitGateway ==
    DirectIdle /\ UtilIdle /\ \E conv \in Conversations : GatewayIdle(conv)

\* The loop schedules coroutine t: it enters `while True`, builds the client
\* and awaits client.chat.completions.create (the await frees the loop).
ChatGPT_send_message(t) ==
    /\ running = NoTask
    /\ pc[t] = "idle"
    /\ pc' = [pc EXCEPT ![t] = "awaiting"]
    /\ trace' = [trace EXCEPT ![t] = Append(@, "call")]
    /\ UNCHANGED <<running, resp, ret, prompt_tokens, completion_tokens,
                   billedPrompt, billedCompletion, overlapped, gatewayVars, utilVars>>

\* The provider answers the call in flight: a response, or an error.  The
\* network does not wait for the event loop.
ProviderResponds(t, r) ==
    /\ pc[t] = "awaiting"
    /\ resp[t] = NoResp
    /\ resp' = [resp EXCEPT ![t] = OkResp(r)]
    /\ billedPrompt' = billedPrompt + MeteredPrompt(r)
    /\ billedCompletion' = billedCompletion + MeteredCompletion(r)
    /\ UNCHANGED <<running, pc, ret, trace, prompt_tokens, completion_tokens,
                   overlapped, gatewayVars, utilVars>>

ProviderFails(t, c) ==
    /\ pc[t] = "awaiting"
    /\ resp[t] = NoResp
    /\ TotalFailures < MaxFailures
    /\ resp' = [resp EXCEPT ![t] = ErrResp(c)]
    /\ UNCHANGED <<running, pc, ret, trace, prompt_tokens, completion_tokens,
                   billedPrompt, billedCompletion, overlapped, gatewayVars, utilVars>>

\* Variant of ChatGPT_except: the clause logs the warning and does not sleep.
ChatGPT_except_nosleep(t) ==
    /\ running = NoTask
    /\ pc[t] = "awaiting"
    /\ resp[t].kind = "error"
    /\ Caught(resp[t].class)
    /\ pc' = [pc EXCEPT ![t] = "sleeping"]
    /\ running' = t
    /\ trace' = [trace EXCEPT ![t] = Append(@, resp[t].class)]
    /\ UNCHANGED <<resp, ret, prompt_tokens, completion_tokens,
                   billedPrompt, billedCompletion, overlapped, gatewayVars, utilVars>>

\* Variant of ChatGPT_except: the second failure of a send ends it with None.
ChatGPT_except_ceiling(t) ==
    /\ running = NoTask
    /\ pc[t] = "awaiting"
    /\ resp[t].kind = "error"
    /\ Caught(resp[t].class)
    /\ IF Failures(t) >= 1
         THEN /\ pc' = [pc EXCEPT ![t] = "done"]
              /\ ret' = [ret EXCEPT ![t] = ReturnedNone]
              /\ trace' = [trace EXCEPT ![t] = Append(@, resp[t].class)]
              /\ UNCHANGED running
         ELSE /\ pc' = [pc EXCEPT ![t] = "sleeping"]
              /\ running' = t
              /\ trace' = [trace EXCEPT ![t] = @ \o <<resp[t].class, "sleep 1">>]
              /\ UNCHANGED ret
    /\ UNCHANGED <<resp, prompt_tokens, completion_tokens,
                   billedPrompt, billedCompletion, overlapped, gatewayVars, utilVars>>

\* The await raises an error one of the except clauses catches: log a warning
\* and call time.sleep, which blocks the thread of the event loop.
ChatGPT_except(t) ==
    /\ running = NoTask
    /\ pc[t] = "awaiting"
    /\ resp[t].kind = "error"
    /\ Caught(resp[t].class)
    /\ pc' = [pc EXCEPT ![t] = "sleeping"]
    /\ running' = t
    /\ trace' = [trace EXCEPT ![t] =
                    @ \o <<resp[t].class,
                           IF ExceptDelay(resp[t].class) = 1 THEN "sleep 1"
                           ELSE "sleep 5">>]
    /\ UNCHANGED <<resp, ret, prompt_tokens, completion_tokens,
                   billedPrompt, billedCompletion, overlapped, gatewayVars, utilVars>>

\* The await raises an error no except clause catches: it leaves send_message.
ChatGPT_raise(t) ==
    /\ running = NoTask
    /\ pc[t] = "awaiting"
    /\ resp[t].kind = "error"
    /\ ~Caught(resp[t].class)
    /\ pc' = [pc EXCEPT ![t] = "raised"]
    /\ trace' = [trace EXCEPT ![t] = Append(@, resp[t].class)]
    /\ UNCHANGED <<running, resp, ret, prompt_tokens, completion_tokens,
                   billedPrompt, billedCompletion, overlapped, gatewayVars, utilVars>>

\* Variant of ChatGPT_retry: each new attempt is counted as a prompt.
ChatGPT_retry_counting(t) ==
    /\ running = t
    /\ pc[t] = "sleeping"
    /\ pc' = [pc EXCEPT ![t] = "awaiting"]
    /\ resp' = [resp EXCEPT ![t] = NoResp]
    /\ trace' = [trace EXCEPT ![t] = Append(@, "call")]
    /\ running' = NoTask
    /\ prompt_tokens' = prompt_tokens + 1
    /\ UNCHANGED <<ret, completion_tokens,
                   billedPrompt, billedCompletion, overlapped, gatewayVars, utilVars>>

\* time.sleep returns: next iteration of `while True`, next provider call.
ChatGPT_retry(t) ==
    /\ running = t
    /\ pc[t] = "sleeping"
    /\ pc' = [pc EXCEPT ![t] = "awaiting"]
    /\ resp' = [resp EXCEPT ![t] = NoResp]
    /\ trace' = [trace EXCEPT ![t] = Append(@, "call")]
    /\ running' = NoTask
    /\ UNCHANGED <<ret, prompt_tokens, completion_tokens,
                   billedPrompt, billedCompletion, overlapped, gatewayVars, utilVars>>

\* The await returns a response: break, add the usage, return the contents.
ChatGPT_return(t) ==
    /\ running = NoTask
    /\ pc[t] = "awaiting"
    /\ resp[t].kind = "ok"
    /\ prompt_tokens' = AddUsage(prompt_tokens, UsagePrompt(resp[t].response))
    /\ completion_tokens' =
           AddUsage(completion_tokens, UsageCompletion(resp[t].response))
    /\ ret' = [ret EXCEPT ![t] = Returned(Contents(ChoicesOf(resp[t].response)))]
    /\ pc' = [pc EXCEPT ![t] = "done"]
    /\ overlapped' = (overlapped \/ \E u \in Tasks \ {t} : pc[u] = "awaiting")
    /\ UNCHANGED <<running, resp, trace, billedPrompt, billedCompletion, gatewayVars, utilVars>>

NextDirect ==
    \/ \E t \in Tasks : ChatGPT_send_message(t)
    \/ \E t \in Tasks, r \in Responses : ProviderResponds(t, r)
    \/ \E t \in Tasks, c \in RaisedErrors : ProviderFails(t, c)
    \/ \E t \in Tasks : ChatGPT_except(t)
    \/ \E t \in Tasks : ChatGPT_raise(t)
    \/ \E t \in Tasks : ChatGPT_retry(t)
    \/ \E t \in Tasks : ChatGPT_return(t)

SpecDirect == InitDirect /\ [][NextDirect]_vars

\* The event loop runs every coroutine that is ready, time.sleep returns,
\* the provider answers every call, and it does not fail for ever: a call
\* made again and again is answered with a response at some time.
FairDirect ==
    \A t \in Tasks :
        /\ SF_vars(ChatGPT_except(t))
        /\ SF_vars(ChatGPT_raise(t))
        /\ SF_vars(ChatGPT_return(t))
        /\ WF_vars(ChatGPT_retry(t))
        /\ WF_vars(\/ \E r \in Responses : ProviderResponds(t, r)
                   \/ \E c \in RaisedErrors : ProviderFails(t, c))
        /\ SF_vars(\E r \in Responses : ProviderResponds(t, r))

SpecDirectLive == SpecDirect /\ FairDirect

\* ============================================================ gateway actions

\* Variant of InRange: the body of the loop runs once before the test.
InRange_atleastonce(i, n) == i < n \/ i = 0

\* Variant of InRange: one iteration more than range(MAX_RETRY).
InRange_inclusive(i, n) == i <= n

\* `for _ in range(n)` has an iteration left after i iterations.
InRange(i, n) == i < n

\* Variant of AttemptResult: an exception of get_inference is swallowed and
\* the attempt counts as one without structured data.
AttemptResult_swallow(outcome) ==
    LET inference == get_inference(outcome)
    IN IF inference.raised THEN [kind |-> "retry"]
       ELSE IF inference.json.isNone THEN [kind |-> "raise", exc |-> "KeyError"]
       ELSE Extract(inference.json.v)

\* One iteration of the loop of Claude.send_message: get_inference, then
\* inference["completion"], then the extraction.
AttemptResult(outcome) ==
    LET inference == get_inference(outcome)
    IN IF inference.raised THEN [kind |-> "raise", exc |-> inference.exc]
       ELSE IF inference.json.isNone THEN [kind |-> "raise", exc |-> "KeyError"]
       ELSE Extract(inference.json.v)

\* Claude.send_message is called with the caller's list: the first message is
\* popped and merged into the next one, in place, and the payload is built.
\* The coroutine has no await: it keeps the thread of the loop until it ends.
Claude_send_message ==
    /\ running = NoTask
    /\ cpc \in {"idle", "returned", "raised"}
    /\ sends < MaxSends
    /\ sends' = sends + 1
    /\ before' = conversation
    /\ LET normalized == Normalize(conversation)
       IN /\ conversation' = normalized.list
          /\ IF normalized.raised
             THEN /\ cpc' = "raised"
                  /\ exc' = "IndexError"
                  /\ payload' = NoPayload
                  /\ ceiling' = 0
                  /\ UNCHANGED running
             ELSE /\ cpc' = "loop"
                  /\ exc' = NoException
                  /\ payload' = create_payload(normalized.list)
                  /\ ceiling' = MAX_RETRY
                  /\ running' = GatewayTask
    /\ attempt' = 0
    /\ sent' = <<>>
    /\ results' = <<>>
    /\ errors_logged' = 0
    /\ cret' = NotReturned
    /\ UNCHANGED <<utilVars, pc, resp, ret, trace, prompt_tokens, completion_tokens,
                   billedPrompt, billedCompletion, overlapped, MAX_RETRY,
                   claude_prompt_tokens, claude_completion_tokens, client>>

\* Variant of Claude_attempt: the first message is merged into the next one
\* and the payload is built inside the loop, at each iteration.
Claude_attempt_renormalizing(outcome) ==
    /\ running = GatewayTask
    /\ cpc = "loop"
    /\ InRange(attempt, ceiling)
    /\ conversation' = IF Len(conversation) >= 2
                       THEN Normalize(conversation).list ELSE conversation
    /\ payload' = create_payload(conversation')
    /\ sent' = Append(sent, payload')
    /\ results' = Append(results, [outcome |-> OutcomeClass(outcome),
                                   result |-> AttemptResult(outcome).kind])
    /\ LET result == AttemptResult(outcome)
       IN CASE result.kind = "return" ->
                 /\ cret' = Returned(result.val)
                 /\ cpc' = "returned"
                 /\ running' = NoTask
                 /\ UNCHANGED <<attempt, exc>>
            [] result.kind = "raise" ->
                 /\ exc' = result.exc
                 /\ cpc' = "raised"
                 /\ running' = NoTask
                 /\ UNCHANGED <<attempt, cret>>
            [] result.kind = "retry" ->
                 /\ attempt' = attempt + 1
                 /\ UNCHANGED <<cret, cpc, exc, running>>
    /\ UNCHANGED <<utilVars, pc, resp, ret, trace, prompt_tokens, completion_tokens,
                   billedPrompt, billedCompletion, overlapped, MAX_RETRY,
                   claude_prompt_tokens, claude_completion_tokens, client,
                   before, ceiling, errors_logged, sends>>

\* One iteration of `for _ in range(cls.MAX_RETRY)`.
Claude_attempt(outcome) ==
    /\ running = GatewayTask
    /\ cpc = "loop"
    /\ InRange(attempt, ceiling)
    /\ sent' = Append(sent, payload)
    /\ results' = Append(results, [outcome |-> OutcomeClass(outcome),
                                   result |-> AttemptResult(outcome).kind])
    /\ LET result == AttemptResult(outcome)
       IN CASE result.kind = "return" ->
                 /\ cret' = Returned(result.val)
                 /\ cpc' = "returned"
                 /\ running' = NoTask
                 /\ UNCHANGED <<attempt, exc>>
            [] result.kind = "raise" ->
                 /\ exc' = result.exc
                 /\ cpc' = "raised"
                 /\ running' = NoTask
                 /\ UNCHANGED <<attempt, cret>>
            [] result.kind = "retry" ->
                 /\ attempt' = attempt + 1
                 /\ UNCHANGED <<cret, cpc, exc, running>>
    /\ UNCHANGED <<utilVars, pc, resp, ret, trace, prompt_tokens, completion_tokens,
                   billedPrompt, billedCompletion, overlapped, MAX_RETRY,
                   claude_prompt_tokens, claude_completion_tokens, client,
                   conversation, before, payload, ceiling, errors_logged, sends>>

\* Variant of Claude_exhausted: the send accounts for the prompts it sent.
Claude_exhausted_counting ==
    /\ running = GatewayTask
    /\ cpc = "loop"
    /\ ~InRange(attempt, ceiling)
    /\ errors_logged' = errors_logged + 1
    /\ claude_prompt_tokens' = claude_prompt_tokens + Len(sent)
    /\ cret' = ReturnedNone
    /\ cpc' = "returned"
    /\ running' = NoTask
    /\ UNCHANGED <<utilVars, pc, resp, ret, trace, prompt_tokens, completion_tokens,
                   billedPrompt, billedCompletion, overlapped, MAX_RETRY,
                   claude_completion_tokens, client,
                   conversation, before, payload, ceiling, attempt, sent,
                   results, exc, sends>>

\* Variant of Claude_exhausted: the loop reads Claude.MAX_RETRY again at each
\* iteration.
Claude_exhausted_rereading ==
    /\ running = GatewayTask
    /\ cpc = "loop"
    /\ ~InRange(attempt, MAX_RETRY)
    /\ errors_logged' = errors_logged + 1
    /\ cret' = ReturnedNone
    /\ cpc' = "returned"
    /\ running' = NoTask
    /\ UNCHANGED <<utilVars, pc, resp, ret, trace, prompt_tokens, completion_tokens,
                   billedPrompt, billedCompletion, overlapped, MAX_RETRY,
                   claude_prompt_tokens, claude_completion_tokens, client,
                   conversation, before, payload, ceiling, attempt, sent,
                   results, exc, sends>>

\* The loop ends without a return: log.error(...) and return None.
Claude_exhausted ==
    /\ running = GatewayTask
    /\ cpc = "loop"
    /\ ~InRange(attempt, ceiling)
    /\ errors_logged' = errors_logged + 1
    /\ cret' = ReturnedNone
    /\ cpc' = "returned"
    /\ running' = NoTask
    /\ UNCHANGED <<utilVars, pc, resp, ret, trace, prompt_tokens, completion_tokens,
                   billedPrompt, billedCompletion, overlapped, MAX_RETRY,
                   claude_prompt_tokens, claude_completion_tokens, client,
                   conversation, before, payload, ceiling, attempt, sent,
                   results, exc, sends>>

\* get_model_from_str(model_name, llm_malformed_max_retry): a plain function,
\* called by the thread of the event loop between the steps of its
\* coroutines, or by another thread while a gateway send is in its loop.
get_model_from_str(model_name, llm_malformed_max_retry) ==
    /\ running \in {NoTask, GatewayTask}
    /\ LET name == Lower(model_name)
       IN CASE name = <<"o", "p", "e", "n", "a", "i">> ->
                 /\ client' = "ChatGPT"
                 /\ UNCHANGED MAX_RETRY
            [] name = <<"c", "l", "a", "u", "d", "e">> ->
                 /\ MAX_RETRY' = llm_malformed_max_retry
                 /\ client' = "Claude"
            [] OTHER ->
                 /\ client' = "None"
                 /\ UNCHANGED MAX_RETRY
    /\ UNCHANGED <<utilVars, directVars, claude_prompt_tokens, claude_completion_tokens,
                   conversation, before, cpc, payload, ceiling, attempt, sent,
                   results, errors_logged, cret, exc, sends>>

NextGateway ==
    \/ Claude_send_message
    \/ \E outcome \in InferenceOutcomes : Claude_attempt(outcome)
    \/ Claude_exhausted
    \/ \E model_name \in ModelNames, m \in RetryArgs : get_model_from_str(model_name, m)

SpecGateway == InitGateway /\ [][NextGateway]_vars

\* ============================================================ utility actions

\* The utility calls made in the model.
UtilCalls == CostCalls \cup NumberCalls \cup WrapCalls

InitUtils ==
    /\ DirectIdle
    /\ GatewayIdle(<<>>)
    /\ util_args \in UtilCalls
    /\ util_result = Pending

\* calculate_cost(num_input_tokens, num_output_tokens, model_type) is called.
Call_calculate_cost ==
    /\ util_args.fn = "calculate_cost"
    /\ util_result = Pending
    /\ util_result' = calculate_cost(util_args.num_input_tokens,
                                     util_args.num_output_tokens,
                                     util_args.model_type)
    /\ UNCHANGED <<util_args, directVars, gatewayVars>>

\* number_group_of_lines(group, first, strip) is called.
Call_number_group_of_lines ==
    /\ util_args.fn = "number_group_of_lines"
    /\ util_result = Pending
    /\ util_result' = number_group_of_lines(util_args.group, util_args.first,
                                            util_args.strip)
    /\ UNCHANGED <<util_args, directVars, gatewayVars>>

\* word_wrap_except_code_blocks(text, width) is called.
Call_word_wrap_except_code_blocks ==
    /\ util_args.fn = "word_wrap_except_code_blocks"
    /\ util_result = Pending
    /\ util_result' = word_wrap_except_code_blocks(util_args.text,
                                                   util_args.width)
    /\ UNCHANGED <<util_args, directVars, gatewayVars>>

NextUtils ==
    \/ Call_calculate_cost
    \/ Call_number_group_of_lines
    \/ Call_word_wrap_except_code_blocks

SpecUtils == InitUtils /\ [][NextUtils]_vars

\* ==================================================== gateway provider claims

LoopEntered == sends > 0 /\ payload # NoPayload
Ended == cpc \in {"returned", "raised"}
NoStructuredData == \A i \in DOMAIN results : results[i].result = "retry"

\* C1: a send with ceiling M >= 1 none of whose attempts yields structured
\* data (or raises) makes no more than M provider calls, and ends only after
\* exactly M calls, returning None, with no exception and one error logged.
C1_ExhaustedReturnsNone ==
    (LoopEntered /\ ceiling >= 1 /\ NoStructuredData) =>
        /\ Len(sent) <= ceiling
        /\ cpc \in {"loop", "returned"}
        /\ exc = NoException
        /\ IF Ended
           THEN /\ Len(sent) = ceiling
                /\ cret = ReturnedNone
                /\ errors_logged = 1
           ELSE /\ cret = NotReturned
                /\ errors_logged = 0

C1_Witness ==
    /\ LoopEntered /\ NoStructuredData /\ Ended
    /\ ceiling = DEFAULT_MAX_RETRY
    /\ Len(sent) = DEFAULT_MAX_RETRY
    /\ cret = ReturnedNone

\* C3 (as claimed): when Claude.send_message has returned or raised, the
\* caller's list holds the messages it held when the send was called.
C3_ConversationUnchanged == Ended => conversation = before

ExpectedError(class) ==
    IF class = "status not 200" THEN "RuntimeError" ELSE class

\* C5: a get_inference call that ends with a non-200 status, without
\* credentials or with an error while sending is the last call of its send:
\* the send has raised that exception, has returned nothing and has logged no
\* exhaustion error.
C5_FatalNotRetried ==
    \A i \in DOMAIN results :
        (results[i].outcome # "status 200") =>
            /\ i = Len(results)
            /\ Len(sent) = i
            /\ cpc = "raised"
            /\ exc = ExpectedError(results[i].outcome)
            /\ cret = NotReturned
            /\ errors_logged = 0

C5_Witness ==
    /\ cpc = "raised"
    /\ exc = "RuntimeError"
    /\ Len(results) = 2
    /\ results[2].outcome = "status not 200"
    /\ ceiling = DEFAULT_MAX_RETRY

\* C11: a send called with a list of zero or one message has raised
\* IndexError to its caller: it has built no payload, has called the provider
\* not once and has returned nothing.
C11_ShortConversationRaises ==
    (sends > 0 /\ Len(before) < 2) =>
        /\ cpc = "raised"
        /\ exc = "IndexError"
        /\ payload = NoPayload
        /\ sent = <<>>
        /\ results = <<>>
        /\ cret = NotReturned

C11_Witness ==
    /\ sends > 0
    /\ Len(before) = 1
    /\ cpc = "raised"

\* t is s without its trailing whitespace: a prefix of s that does not end
\* with whitespace, what follows it in s being whitespace only.
IsRStripOf(t, s) ==
    \E n \in 0..Len(s) :
        /\ t = SubSeq(s, 1, n)
        /\ n > 0 => s[n] \notin Whitespace
        /\ \A j \in (n + 1)..Len(s) : s[j] \in Whitespace

\* C12: a send called with a list of two or more messages leaves the list one
\* message shorter: its first content is the first original content without
\* trailing whitespace, a newline, then the second original content, and the
\* messages after it are the third and later original messages, unchanged
\* and in order.
C12_NormalizationShape ==
    (sends > 0 /\ Len(before) >= 2) =>
        /\ Len(conversation) = Len(before) - 1
        /\ \E t \in {SubSeq(before[1].content, 1, n) :
                        n \in 0..Len(before[1].content)} :
              /\ IsRStripOf(t, before[1].content)
              /\ conversation[1].content = t \o <<"\n">> \o before[2].content
        /\ \A i \in 2..Len(conversation) : conversation[i] = before[i + 1]

C12_Witness ==
    /\ sends > 0
    /\ Len(before) = 3
    /\ before[1].content = <<"a", "\n">>
    /\ conversation[1].content = <<"a", "\n", "b", " ">>
    /\ cpc = "loop"

\* A 200 response of the gateway whose body holds completion c.
Completed(c) == [kind |-> "http", status |-> 200, body |-> Some(c)]

SnippetPair(code_blocks) ==
    Dumps(JObj(<<Member(<<"snippet1">>, JStr(code_blocks[1])),
                 Member(<<"snippet2">>, JStr(code_blocks[2]))>>))

\* C13 (as claimed): an attempt whose completion holds a JSON object returns
\* a list made from that object, whatever code blocks the completion has;
\* an attempt whose completion holds none returns the single completion
\* {snippet1, snippet2} when the completion has exactly two fenced code
\* blocks, and otherwise returns nothing and leaves the send to its next
\* iteration.
C13_JsonThenCodeBlocks ==
    [][\A c \in Completions :
          Claude_attempt(Completed(c)) =>
              LET code_blocks == extract_code_blocks(c)
              IN IF ~contains_valid_json(c).isNone
                 THEN /\ cpc' = "returned"
                      /\ cret'.kind = "list"
                      /\ Len(code_blocks) = 2 =>
                             cret' # Returned(<<SnippetPair(code_blocks)>>)
                 ELSE IF Len(code_blocks) = 2
                 THEN /\ cpc' = "returned"
                      /\ cret' = Returned(<<SnippetPair(code_blocks)>>)
                 ELSE /\ cpc' = "loop"
                      /\ cret' = NotReturned
                      /\ exc' = NoException
                      /\ attempt' = attempt + 1]_vars

\* The value is a sequence: a list or a string.
IsSequence(x) == x.t \in {"list", "str"}

\* C14 (as claimed): an attempt whose completion holds a JSON object returns
\* one completion per element of "responses", serialized, when the object
\* has that key with a sequence under it, and in every other case the
\* serialization of the whole object as its single completion.
C14_ResponsesOrWholeObject ==
    [][\A c \in Completions :
          (Claude_attempt(Completed(c)) /\ ~contains_valid_json(c).isNone) =>
              LET parsed == contains_valid_json(c).v
                  perElement(x) == [i \in DOMAIN IterItems(x) |->
                                       Dumps(IterItems(x)[i])]
              IN /\ cpc' = "returned"
                 /\ IF /\ HasKey(parsed.v, <<"responses">>)
                       /\ IsSequence(Lookup(parsed.v, <<"responses">>))
                    THEN cret' = Returned(perElement(
                                     Lookup(parsed.v, <<"responses">>)))
                    ELSE cret' = Returned(<<Dumps(parsed)>>)]_vars

\* name is `lowered` up to the case of its letters.
SameIgnoringCase(name, lowered) ==
    /\ Len(name) = Len(lowered)
    /\ \A i \in DOMAIN name :
          \/ name[i] = lowered[i]
          \/ \E k \in DOMAIN LowerLetters :
                LowerLetters[k] = lowered[i] /\ UpperLetters[k] = name[i]

\* C16: get_model_from_str returns the direct client for every case variant
\* of "openai", the gateway client for every case variant of "claude",
\* Claude.MAX_RETRY then being the integer given, and None for every other
\* name, Claude.MAX_RETRY then being what it was.
C16_CaseInsensitiveFactory ==
    [][\A model_name \in ModelNames, m \in RetryArgs :
          get_model_from_str(model_name, m) =>
              IF SameIgnoringCase(model_name, <<"o", "p", "e", "n", "a", "i">>)
              THEN client' = "ChatGPT"
              ELSE IF SameIgnoringCase(model_name, <<"c", "l", "a", "u", "d", "e">>)
              THEN client' = "Claude" /\ MAX_RETRY' = m
              ELSE client' = "None" /\ MAX_RETRY' = MAX_RETRY]_vars

C16_Witness ==
    /\ client = "None"
    /\ MAX_RETRY = 1
    /\ sends = 0

\* C17: Claude.prompt_tokens and Claude.completion_tokens are 0, whatever
\* sends have been made.
C17_GatewayCountersZero ==
    /\ claude_prompt_tokens = 0
    /\ claude_completion_tokens = 0

C17_Witness ==
    /\ sends = 2
    /\ cpc = "returned"
    /\ cret = ReturnedNone
    /\ Len(sent) >= 1
    /\ claude_prompt_tokens = 0
    /\ claude_completion_tokens = 0

\* The attempt that yields data or raises is the last one of its send, and
\* every attempt has sent the payload built from the normalized list.
StopsAtFirstResult ==
    /\ Len(sent) = Len(results)
    /\ \A i \in DOMAIN results :
          results[i].result # "retry" => (i = Len(results) /\ Ended)
    /\ \A i \in DOMAIN sent : sent[i] = payload
    /\ LoopEntered => payload = create_payload(conversation)

\* A step of a send inside its loop leaves the list, the payload and the
\* ceiling as they are; an attempt that makes the send return makes it return
\* what the extraction gives for the completion of that attempt.
OneNormalizationOnePayload ==
    /\ cpc = "loop" =>
           (conversation' = conversation /\ payload' = payload
            /\ ceiling' = ceiling)
    /\ \A c \in Completions :
          (Claude_attempt(Completed(c)) /\ cpc' = "returned") =>
              /\ Extract(c).kind = "return"
              /\ cret' = Returned(Extract(c).val)

\* C24 (as claimed): a send makes at most M provider calls, M being the
\* ceiling read when its loop starts, and none after the first attempt that
\* yields data or raises; what it returns comes from the completion of that
\* attempt; the list is normalized and the payload built once, and every
\* attempt sends that payload.
C24_AtMostCeilingCalls ==
    /\ [](StopsAtFirstResult /\ (LoopEntered => Len(sent) <= ceiling))
    /\ [][OneNormalizationOnePayload]_vars

\* The calls a loop over range(n) can make.
RangeLen(n) == IF n > 0 THEN n ELSE 0

\* C24 (amended): as above, the number of provider calls being at most M
\* when M is positive and 0 when M is 0 or negative.
C24_AtMostRangeOfCeilingCalls ==
    /\ [](StopsAtFirstResult /\ (LoopEntered => Len(sent) <= RangeLen(ceiling)))
    /\ [][OneNormalizationOnePayload]_vars

C24_Witness ==
    /\ cpc = "returned"
    /\ cret.kind = "list"
    /\ ceiling = DEFAULT_MAX_RETRY
    /\ Len(sent) = 3
    /\ sent[1] = sent[3]
    /\ results[2].result = "retry"

\* C25: Claude.MAX_RETRY is one value for all gateway clients:
\* get_model_from_str with a case variant of "claude" and m makes it m, with
\* a case variant of "openai" leaves it as it is; a send that enters its loop
\* reads it as its ceiling, whichever call set it; a send inside its loop
\* keeps the ceiling it read, also when a factory call changes
\* Claude.MAX_RETRY meanwhile, and gives up only when it has made as many
\* calls as range() of that ceiling holds.
C25_OneSharedCeiling ==
    [][/\ \A model_name \in ModelNames, m \in RetryArgs :
             get_model_from_str(model_name, m) =>
                 /\ SameIgnoringCase(model_name, <<"c", "l", "a", "u", "d", "e">>)
                        => MAX_RETRY' = m
                 /\ SameIgnoringCase(model_name, <<"o", "p", "e", "n", "a", "i">>)
                        => MAX_RETRY' = MAX_RETRY
                 /\ UNCHANGED <<ceiling, attempt, cpc>>
       /\ (cpc # "loop" /\ cpc' = "loop") => ceiling' = MAX_RETRY
       /\ cpc = "loop" => ceiling' = ceiling
       /\ (cpc = "loop" /\ cret' = ReturnedNone) =>
              Len(sent) = RangeLen(ceiling)]_vars

\* A second send reads the ceiling 1 a factory call has set; a factory call
\* sets Claude.MAX_RETRY to 0 while the send is in its loop, and the send has
\* made its one call.
C25_Witness ==
    /\ sends = 2
    /\ cpc = "loop"
    /\ ceiling = 1
    /\ MAX_RETRY = 0
    /\ Len(sent) = 1

\* C26: a send of a list of two or more messages whose ceiling is 0 or
\* negative makes no provider call and raises nothing; when it has ended it
\* has logged one error and returned None.
C26_NoAttemptWithoutCeiling ==
    (LoopEntered /\ ceiling <= 0) =>
        /\ sent = <<>>
        /\ results = <<>>
        /\ exc = NoException
        /\ cpc \in {"loop", "returned"}
        /\ IF cpc = "returned"
           THEN cret = ReturnedNone /\ errors_logged = 1
           ELSE cret = NotReturned /\ errors_logged = 0

C26_Witness ==
    /\ Len(before) >= 2
    /\ ceiling = 0 - 1
    /\ cpc = "returned"
    /\ cret = ReturnedNone
    /\ errors_logged = 1
    /\ sent = <<>>

\* C6 (as claimed): a list returned by send_message, of the gateway provider
\* or of the direct provider, is not empty.
C6_ReturnsNonEmptyOrNone ==
    /\ (cret.kind = "list") => (cret.val # <<>>)
    /\ \A t \in Tasks : (ret[t].kind = "list") => (ret[t].val # <<>>)

\* C10 (as claimed): the normalized conversation rendered into the prompt has
\* a first message, with the role "Human", and the prompt starts with it.
C10_FirstIsHuman ==
    LoopEntered =>
        /\ conversation # <<>>
        /\ conversation[1].role = USER_PREFIX
        /\ payload.prompt[1] = USER_PREFIX

\* ===================================================== direct provider claims

Succeeded(t) == pc[t] = "done" /\ ret[t].kind = "list"
OnlyRateLimits(t) ==
    \A i \in DOMAIN trace[t] : IsFailure(trace[t][i]) => trace[t][i] = "RateLimitError"

\* C2: a send whose provider call failed k times with a rate limit and then
\* succeeded has made k+1 calls and k sleeps, in the order
\* (call, failure, sleep) k times and then the last call, and returns the
\* contents of the successful response.
C2_RateLimitThenSuccess ==
    \A t \in Tasks :
        (Succeeded(t) /\ OnlyRateLimits(t)) =>
            LET k == Failures(t) IN
            /\ Calls(t) = k + 1
            /\ Sleeps(t) = k
            /\ Len(trace[t]) = 3 * k + 1
            /\ \A i \in 1..k :
                  /\ trace[t][3 * i - 2] = "call"
                  /\ trace[t][3 * i - 1] = "RateLimitError"
                  /\ IsSleep(trace[t][3 * i])
            /\ trace[t][3 * k + 1] = "call"
            /\ resp[t].kind = "ok"
            /\ ret[t].val = Contents(ChoicesOf(resp[t].response))

C2_Witness ==
    \E t \in Tasks : Succeeded(t) /\ OnlyRateLimits(t) /\ Failures(t) = 2

AllAbsorbed == \A t \in Tasks : (pc[t] = "awaiting") => (resp[t].kind # "ok")

\* C4: whenever every successful response has been returned, the counters
\* equal the sums of the usage of all successful responses (initially 0),
\* and no step decreases a counter.
C4_CountersAccumulate ==
    /\ [](AllAbsorbed => /\ prompt_tokens = billedPrompt
                          /\ completion_tokens = billedCompletion)
    /\ [][/\ prompt_tokens' >= prompt_tokens
           /\ completion_tokens' >= completion_tokens]_vars

C4_Witness ==
    /\ \A t \in Tasks : Succeeded(t)
    /\ prompt_tokens = 4
    /\ completion_tokens = 3

TransientErrors == {c \in ErrorClasses : IsInstance(c, "APIError")}

\* C7: no send returns None or ends with a rate-limit, timeout or
\* API/connection error; a send whose call failed with one of them sleeps
\* next, and a send that sleeps calls the provider again next.
C7_NeverGivesUp ==
    /\ [](\A t \in Tasks :
            /\ ret[t] # ReturnedNone
            /\ (pc[t] = "raised") =>
                   (trace[t][Len(trace[t])] \notin TransientErrors))
    /\ [][\A t \in Tasks :
            /\ ( /\ pc[t] = "awaiting" /\ resp[t].kind = "error"
                 /\ resp[t].class \in TransientErrors
                 /\ pc'[t] # pc[t] ) => pc'[t] = "sleeping"
            /\ ( pc[t] = "sleeping" /\ pc'[t] # pc[t] ) =>
                   ( pc'[t] = "awaiting" /\ Calls(t)' = Calls(t) + 1 )]_vars

C7_Witness ==
    \E t \in Tasks :
        /\ pc[t] = "awaiting" /\ resp[t] = NoResp
        /\ Failures(t) = 2 /\ Calls(t) = 3

DonePrompt(t) == IF Succeeded(t) THEN MeteredPrompt(resp[t].response) ELSE 0
DoneCompletion(t) == IF Succeeded(t) THEN MeteredCompletion(resp[t].response) ELSE 0

\* C8: in every interleaving of the sends, the counters equal the sums of
\* the usage of the sends that have succeeded so far: no increment is lost.
C8_NoLostIncrement ==
    /\ prompt_tokens = SumOver(DonePrompt, Tasks)
    /\ completion_tokens = SumOver(DoneCompletion, Tasks)

\* All sends have succeeded, one of them having returned while the call of
\* another was in flight, and the counters hold the usage of two responses.
C8_Witness ==
    /\ overlapped
    /\ \A t \in Tasks : Succeeded(t)
    /\ prompt_tokens = 4
    /\ completion_tokens = 3

\* The steps of send u that need the thread of the event loop.
StepOf(u) ==
    \/ ChatGPT_send_message(u)
    \/ ChatGPT_except(u)
    \/ ChatGPT_raise(u)
    \/ ChatGPT_return(u)

HasStepToTake(u) ==
    \/ pc[u] = "idle"
    \/ pc[u] = "awaiting" /\ resp[u] # NoResp

\* C9 (as claimed): while a send is in its backoff sleep, every other send
\* that has a step to take can take it.
C9_SleepBlocksOnlySleeper ==
    \A t, u \in Tasks :
        (t # u /\ pc[t] = "sleeping" /\ HasStepToTake(u)) => ENABLED StepOf(u)

HasText(choice) == ~choice.isNone /\ choice.v # ""

\* C15 (as claimed): the list a send has returned holds, in order, exactly
\* the contents of the response's choices that are neither None nor the
\* empty string.
C15_ReturnsTextsOnly ==
    \A t \in Tasks :
        pc[t] = "done" =>
            LET kept == SelectSeq(ChoicesOf(resp[t].response), HasText)
            IN ret[t] = Returned([i \in DOMAIN kept |-> kept[i].v])

\* The sleep that follows a failure of class c: the short one for a
\* rate-limit or timeout failure, the long one for any other class.
SleepAfter(c) ==
    IF c \in {"RateLimitError", "APITimeoutError"} THEN "sleep 1" ELSE "sleep 5"

\* C21 (as claimed): every failure of the provider call of a send is followed
\* by one sleep, the short one after a rate-limit or timeout failure and the
\* long one after any other, and then by a new call; no send has ended with
\* an exception.
C21_EveryFailureRetried ==
    \A t \in Tasks :
        /\ pc[t] # "raised"
        /\ \A i \in DOMAIN trace[t] :
              IsFailure(trace[t][i]) =>
                  /\ i < Len(trace[t])
                  /\ trace[t][i + 1] = SleepAfter(trace[t][i])
                  /\ i + 2 <= Len(trace[t]) => trace[t][i + 2] = "call"

\* C22 (as claimed): when the provider does not fail for ever, every send
\* that has called the provider returns a result at some time.
C22_EventuallyReturns ==
    \A t \in Tasks : (pc[t] = "awaiting") ~> (pc[t] = "done")

\* The step is the return of a send.
Returns(t) == pc[t] # "done" /\ pc'[t] = "done"

\* C23: a step changes ChatGPT.prompt_tokens and ChatGPT.completion_tokens
\* only when it is the return of a send whose call got a response, and then
\* adds the usage of that response; the steps of failed attempts and of
\* sleeps leave the counters as they are, and a send that has returned takes
\* no further step.
C23_CountersChangeOnSuccessOnly ==
    [][/\ \A t \in Tasks :
             /\ pc[t] = "done" => (pc'[t] = "done" /\ ret'[t] = ret[t])
             /\ Returns(t) =>
                    /\ resp[t].kind = "ok"
                    /\ prompt_tokens' =
                           prompt_tokens + MeteredPrompt(resp[t].response)
                    /\ completion_tokens' =
                           completion_tokens + MeteredCompletion(resp[t].response)
       /\ (\A t \in Tasks : ~Returns(t)) =>
              /\ prompt_tokens' = prompt_tokens
              /\ completion_tokens' = completion_tokens]_vars

\* A send has returned after two failed attempts and two sleeps; the counters
\* hold the usage of its one response.
C23_Witness ==
    /\ pc[1] = "done"
    /\ Failures(1) = 2
    /\ Sleeps(1) = 2
    /\ pc[2] = "idle"
    /\ prompt_tokens = MeteredPrompt(resp[1].response)
    /\ completion_tokens = MeteredCompletion(resp[1].response)
    /\ prompt_tokens > 0

\* ============================================================= utility claims

Called(fn) == util_args.fn = fn /\ util_result # Pending

\* The model identifiers of the pricing table.
PricedModels ==
    {"gpt-3.5-turbo-1106", "gpt-3.5-turbo", "gpt-3.5-turbo-0613",
     "gpt-3.5-turbo-0301", "gpt-3.5-turbo-16k", "gpt-3.5-turbo-16k-0613",
     "gpt-4-1106-preview", "gpt-4", "gpt-4-0314", "gpt-4-32k",
     "gpt-4-32k-0314"}

\* C18: calculate_cost returns inputTokens / 1000 * inputRate
\* + outputTokens / 1000 * outputRate with the rates of the model in the
\* pricing table (in 10^-7 dollars, the rates being in 10^-4 dollars),
\* and raises ValueError for every identifier that is not in the table.
C18_CostFormula ==
    Called("calculate_cost") =>
        IF util_args.model_type \in PricedModels
        THEN /\ util_result.kind = "return"
             /\ util_result.val =
                    util_args.num_input_tokens
                        * PRICING_PER_1000[util_args.model_type].input
                    + util_args.num_output_tokens
                        * PRICING_PER_1000[util_args.model_type].output
        ELSE util_result = [kind |-> "raise", exc |-> "ValueError"]

\* calculate_cost(1000, 2000, "gpt-3.5-turbo") is 0.0055 dollars.
C18_Witness ==
    /\ Called("calculate_cost")
    /\ util_args.num_input_tokens = 1000
    /\ util_args.num_output_tokens = 2000
    /\ util_args.model_type = "gpt-3.5-turbo"
    /\ util_result = [kind |-> "return", val |-> 55000]

IsDigit(c) == \E d \in DOMAIN DecimalDigits : DecimalDigits[d] = c

RECURSIVE NumberRead(_)
NumberRead(digits) ==
    IF digits = <<>> THEN 0
    ELSE 10 * NumberRead(SubSeq(digits, 1, Len(digits) - 1))
         + (CHOOSE d \in 0..9 : DecimalDigits[d + 1] = digits[Len(digits)])

\* A numbered line read back: spaces, the digits of `number`, one space, then
\* `text`.
IsNumbered(line, number, text) ==
    \E a \in DOMAIN line, b \in DOMAIN line :
        /\ a < b
        /\ \A i \in 1..(a - 1) : line[i] = " "
        /\ \A i \in a..(b - 1) : IsDigit(line[i])
        /\ line[b] = " "
        /\ NumberRead(SubSeq(line, a, b - 1)) = number
        /\ SubSeq(line, b + 1, Len(line)) = text

IsBlank(line) == \A i \in DOMAIN line : line[i] \in Whitespace

\* The places in the group of the lines that are kept.
KeptLines(group, strip) ==
    IF strip
    THEN {i \in DOMAIN group :
             /\ \E j \in 1..i : ~IsBlank(group[j])
             /\ \E j \in i..Len(group) : ~IsBlank(group[j])}
    ELSE DOMAIN group

\* C19: the result of number_group_of_lines has one line for each line kept,
\* in order, which holds first plus the index of that line in the group given
\* (counted from 0), then the line: all the lines without strip, the lines
\* from the first to the last one that is not blank with strip; when no line
\* is kept the result is the empty string.
C19_LinesKeepTheirNumbers ==
    Called("number_group_of_lines") =>
        LET group == util_args.group
            kept == KeptLines(group, util_args.strip)
        IN /\ util_result.kind = "return"
           /\ IF kept = {}
              THEN util_result.val = <<>>
              ELSE LET out == SplitLines(util_result.val)
                       lo == CHOOSE i \in kept : \A j \in kept : i <= j
                   IN /\ Len(out) = Cardinality(kept)
                      /\ \A k \in DOMAIN out :
                            IsNumbered(out[k],
                                       util_args.first + (lo + k - 1) - 1,
                                       group[lo + k - 1])

\* number_group_of_lines(["", "A", "A"], 8, True) is " 9 A\n10 A".
C19_Witness ==
    /\ Called("number_group_of_lines")
    /\ util_args.group = << <<>>, <<"A">>, <<"A">> >>
    /\ util_args.first = 8
    /\ util_args.strip
    /\ util_result.val = <<" ", "9", " ", "A", "\n", "1", "0", " ", "A">>

IsFenceLine(line) == line # <<>> /\ line[1] = FENCE

\* The fenced code blocks of the lines from place i on, in order: each runs
\* from a fence line to the next fence line (to the last line when there is
\* none), both included.
RECURSIVE CodeBlocksFrom(_, _)
CodeBlocksFrom(lines, i) ==
    IF i > Len(lines) THEN <<>>
    ELSE IF IsFenceLine(lines[i])
    THEN LET later == {j \in (i + 1)..Len(lines) : IsFenceLine(lines[j])}
             end == IF later = {} THEN Len(lines)
                    ELSE CHOOSE j \in later : \A k \in later : j <= k
         IN <<SubSeq(lines, i, end)>> \o CodeBlocksFrom(lines, end + 1)
    ELSE CodeBlocksFrom(lines, i + 1)

\* From place `from` on, the lines `out` hold the code blocks, each as it is
\* and in one piece, in order, and every line outside them fits the width.
RECURSIVE HoldsCodeBlocks(_, _, _, _)
HoldsCodeBlocks(out, from, code_blocks, width) ==
    IF code_blocks = <<>>
    THEN \A i \in from..Len(out) : Len(out[i]) <= width
    ELSE LET code == Head(code_blocks)
         IN \E k \in from..(Len(out) - Len(code) + 1) :
               /\ \A i \in from..(k - 1) : Len(out[i]) <= width
               /\ SubSeq(out, k, k + Len(code) - 1) = code
               /\ HoldsCodeBlocks(out, k + Len(code), Tail(code_blocks), width)

\* C20: the text returned by word_wrap_except_code_blocks holds every fenced
\* code block of the text given, fence lines included, line for line as it
\* was (long lines and blank lines too) and the blocks in their order; the
\* lines outside the code blocks are no longer than the width.
C20_CodeBlocksUnchanged ==
    Called("word_wrap_except_code_blocks") =>
        /\ util_result.kind = "return"
        /\ HoldsCodeBlocks(SplitLines(util_result.val), 1,
                           CodeBlocksFrom(SplitLines(util_args.text), 1),
                           util_args.width)

\* "xx xx\n```\nxx xx\n```" at width 2 is "xx\nxx\n\n```\nxx xx\n```".
C20_Witness ==
    /\ Called("word_wrap_except_code_blocks")
    /\ util_args.width = 2
    /\ util_args.text = <<"x", "x", " ", "x", "x", "\n", FENCE, "\n",
                          "x", "x", " ", "x", "x", "\n", FENCE>>
    /\ util_result.val = <<"x", "x", "\n", "x", "x", "\n", "\n", FENCE, "\n",
                           "x", "x", " ", "x", "x", "\n", FENCE>>

====
